---- MODULE Spec2Model ----
(***************************************************************************)
(* Portfolio_Optimizer: the discrete allocation of                         *)
(* PortfolioService.create_optimized_portfolio (services/                  *)
(* portfolio_service.py) and the optimization engine of                    *)
(* domain/portfolio/optimizer.py (risk parameters, strategy selection,     *)
(* weight filtering).                                                      *)
(*                                                                         *)
(* Numbers.  The code computes in binary floating point; the model         *)
(* computes the same expressions exactly.  A weight is a fraction          *)
(* <<num, den>>, money is an integer, and the usage band is compared in    *)
(* hundredths (total * 100 against investment * 90 and investment * 102).  *)
(***************************************************************************)
EXTENDS Integers, Sequences, FiniteSets, TLC

VARIABLES
    \* ---- PortfolioService.create_optimized_portfolio ----
    investment,       \* the cash budget
    weights,          \* optimal_portfolio['weights'] in dict order: <<num, den>> per symbol
    current_prices,   \* price per symbol
    stock_data,       \* the list of lines {symbol, shares, price, amount, weight}
    total_invested,   \* the running total of the adjustment
    apc,              \* position in the allocation code
    trim_i,           \* index of the for loop of the trim pass
    last_step,        \* the single-share adjustment made by the latest step
    allocation,       \* what create_optimized_portfolio returned
    \* ---- MarkowitzOptimizer construction ----
    optimizers,       \* the optimizers constructed so far, oldest first
    \* ---- MarkowitzOptimizer.optimize_portfolio ----
    num_stocks,       \* len(self.stock_symbols)
    returns_data,     \* the kind of the cleaned return matrix
    risk_level,       \* self.risk_level
    opc,              \* position in optimize_portfolio and the strategies
    calls,            \* the strategy invocations: <<strategy, arguments, outcome>>
    result,           \* the result dict held by optimize_portfolio
    scipy_i,          \* the loop variable of SciPyOptimizationStrategy.optimize
    best_result,      \* best_result: 0 for None, else the number of the run
    best_utility,     \* best_utility: -1 for -inf
    outcome,          \* how optimize_portfolio ended
    rng,              \* the global numpy generator: the draws made so far
    solved,           \* what the solvers gave, by starting point
    history,          \* how the earlier optimize_portfolio calls ended
    \* ---- the weight filter of both strategies ----
    solver_x,         \* the solver's weights, in millionths
    fparams,          \* the risk_params row of the request
    filtered_weights, \* filtered_weights, in ten-thousandths, by symbol
    fpc,              \* position in the filter
    \* ---- MarkowitzOptimizer.clean_returns_data ----
    raw_returns,      \* the argument returns_data: a matrix, row by row
    cleaned_data,     \* the local cleaned_data
    cpc,              \* position in clean_returns_data
    \* ---- PortfolioOptimizerWidget ----
    add_button,       \* add_to_portfolio_button.isEnabled()
    optimized_stocks, \* self.optimized_stocks: None or a list of lines
    portfolio_index,  \* portfolio_selector.currentIndex()
    add_stock_calls,  \* the calls of stock_manager.add_stock, oldest first
    message,          \* what the latest handler told the user
    handler,          \* the handler that ran last
    events,           \* the number of handlers run
    \* ---- StockManager.add_stock ----
    stock_table,      \* the rows of table stock, in insertion order
    stock_seq,        \* the AUTOINCREMENT sequence of the table
    add_log           \* the add_stock calls made, with what each ended with

avars == <<investment, weights, current_prices, stock_data, total_invested,
           apc, trim_i, last_step, allocation>>

rvars == <<optimizers>>
ovars == <<num_stocks, returns_data, risk_level, opc, calls, result, scipy_i,
           best_result, best_utility, outcome, rng, solved, history>>
fvars == <<solver_x, fparams, filtered_weights, fpc>>
cvars == <<raw_returns, cleaned_data, cpc>>
wvars == <<add_button, optimized_stocks, portfolio_index, add_stock_calls,
           message, handler, events>>
svars == <<stock_table, stock_seq, add_log>>

vars == <<avars, rvars, ovars, fvars, cvars, wvars, svars>>

-----------------------------------------------------------------------------
(* Bounds of the allocation inputs.                                        *)
MaxAssets == 2
WeightDen == 3
MaxPrice == 3
MaxBudget == 9

(* min_investment_usage = 0.90 and max_investment_usage = 1.02, in         *)
(* hundredths.                                                             *)
MinUsagePct == 90
MaxUsagePct == 102

-----------------------------------------------------------------------------
(* Fractions.                                                              *)
FracLess(a, b) == a[1] * b[2] < b[1] * a[2]

(* int(x / y) for y # 0: Python's int() truncates towards zero, which is   *)
(* floor for x >= 0, y > 0.                                                *)
IntDiv(x, y) ==
    LET ax == IF x < 0 THEN -x ELSE x
        ay == IF y < 0 THEN -y ELSE y
    IN  IF (x < 0) = (y < 0) THEN ax \div ay ELSE -(ax \div ay)

RECURSIVE SumAmounts(_)
SumAmounts(sd) ==
    IF sd = <<>> THEN 0 ELSE Head(sd).amount + SumAmounts(Tail(sd))

(* total_invested < investment * min_investment_usage                      *)
BelowMin(total, inv) == total * 100 < inv * MinUsagePct
(* A variant with an upper band of 1.20.                                   *)
WithinMaxLoose(x, inv) == x * 100 <= inv * 120
(* x <= investment * max_investment_usage                                  *)
WithinMax(x, inv) == x * 100 <= inv * MaxUsagePct

-----------------------------------------------------------------------------
(* A variant of the descending sort that puts a line before the lines of   *)
(* equal weight.                                                           *)
RECURSIVE InsertDescUnstable(_, _)
InsertDescUnstable(x, s) ==
    IF s = <<>> THEN <<x>>
    ELSE IF ~FracLess(x.weight, Head(s).weight) THEN <<x>> \o s
    ELSE <<Head(s)>> \o InsertDescUnstable(x, Tail(s))

(* list.sort(key=weight, reverse=True): stable, equal keys keep their      *)
(* order.                                                                  *)
RECURSIVE InsertDesc(_, _)
InsertDesc(x, s) ==
    IF s = <<>> THEN <<x>>
    ELSE IF FracLess(Head(s).weight, x.weight) THEN <<x>> \o s
    ELSE <<Head(s)>> \o InsertDesc(x, Tail(s))

RECURSIVE SortDesc(_)
SortDesc(s) ==
    IF s = <<>> THEN <<>>
    ELSE InsertDesc(s[Len(s)], SortDesc(SubSeq(s, 1, Len(s) - 1)))

(* A variant of the ascending sort that puts the heavier line first.       *)
RECURSIVE InsertAscReversed(_, _)
InsertAscReversed(x, s) ==
    IF s = <<>> THEN <<x>>
    ELSE IF FracLess(Head(s).weight, x.weight) THEN <<x>> \o s
    ELSE <<Head(s)>> \o InsertAscReversed(x, Tail(s))

(* list.sort(key=weight): stable, ascending.                               *)
RECURSIVE InsertAsc(_, _)
InsertAsc(x, s) ==
    IF s = <<>> THEN <<x>>
    ELSE IF FracLess(x.weight, Head(s).weight) THEN <<x>> \o s
    ELSE <<Head(s)>> \o InsertAsc(x, Tail(s))

RECURSIVE SortAsc(_)
SortAsc(s) ==
    IF s = <<>> THEN <<>>
    ELSE InsertAsc(s[Len(s)], SortAsc(SubSeq(s, 1, Len(s) - 1)))

-----------------------------------------------------------------------------
(* A variant that rounds the share count up.                               *)
InitialLineRoundedUp(sym, w, inv, price) ==
    LET shares == IntDiv(w[1] * inv + w[2] * price - 1, w[2] * price)
    IN  [symbol |-> sym, shares |-> shares, price |-> price,
         amount |-> shares * price, weight |-> w]

(* A variant that rounds the share count to the nearest integer.           *)
InitialLineRounded(sym, w, inv, price) ==
    LET shares == IntDiv(2 * w[1] * inv + w[2] * price, 2 * w[2] * price)
    IN  [symbol |-> sym, shares |-> shares, price |-> price,
         amount |-> shares * price, weight |-> w]

(* The initial pass: one line per weighted symbol whose floor(w * budget / *)
(* price) is at least one share.                                           *)
InitialLine(sym, w, inv, price) ==
    LET shares == IntDiv(w[1] * inv, w[2] * price)
    IN  [symbol |-> sym, shares |-> shares, price |-> price,
         amount |-> shares * price, weight |-> w]

(* A variant of the initial pass that also keeps the lines of 0 shares.    *)
RECURSIVE InitialPassKeepAll(_, _, _, _)
InitialPassKeepAll(i, ws, inv, prices) ==
    IF i > Len(ws) THEN <<>>
    ELSE LET line == InitialLine(i, ws[i], inv, prices[i])
         IN  (IF line.shares >= 0 THEN <<line>> ELSE <<>>)
             \o InitialPassKeepAll(i + 1, ws, inv, prices)

RECURSIVE InitialPass(_, _, _, _)
InitialPass(i, ws, inv, prices) ==
    IF i > Len(ws) THEN <<>>
    ELSE LET line == InitialLine(i, ws[i], inv, prices[i])
         IN  (IF line.shares > 0 THEN <<line>> ELSE <<>>)
             \o InitialPass(i + 1, ws, inv, prices)

(* A variant that gives the share to the first line without looking at the *)
(* upper band.                                                             *)
FirstFitUnchecked(sd, i, total, inv) == IF i > Len(sd) THEN 0 ELSE i

(* The first line, in list order, that takes one more share within the     *)
(* upper band; 0 when there is none.                                       *)
RECURSIVE FirstFit(_, _, _, _)
FirstFit(sd, i, total, inv) ==
    IF i > Len(sd) THEN 0
    ELSE IF WithinMax(total + sd[i].price, inv) THEN i
    ELSE FirstFit(sd, i + 1, total, inv)

(* A variant that gives every held line a share.                           *)
AddShareEverywhere(sd, i) ==
    [k \in 1..Len(sd) |->
        [sd[k] EXCEPT !.shares = @ + 1, !.amount = (sd[k].shares + 1) * sd[k].price]]

AddShareAt(sd, i) ==
    [sd EXCEPT ![i].shares = @ + 1,
               ![i].amount = (sd[i].shares + 1) * sd[i].price]

RemoveShareAt(sd, i) ==
    [sd EXCEPT ![i].shares = @ - 1,
               ![i].amount = (sd[i].shares - 1) * sd[i].price]

-----------------------------------------------------------------------------
(* The inputs of one allocation.                                           *)
WeightVectors(n) == [1..n -> {<<k, WeightDen>> : k \in 0..WeightDen}]
PriceVectors(n) == [1..n -> 1..MaxPrice]

AllocInputs ==
    UNION { [investment : 1..MaxBudget,
             weights : WeightVectors(n),
             prices : PriceVectors(n)] : n \in 1..MaxAssets }

NoStep == [kind |-> "none", symbol |-> 0]
NoAllocation ==
    [returned |-> FALSE, stock_data |-> <<>>, total_invested |-> 0,
     investment |-> 0, remaining |-> 0]

(* The state at line 39 for the inputs inp.                                *)
AllocStart(inp) ==
    /\ investment = inp.investment
    /\ weights = inp.weights
    /\ current_prices = inp.prices
    /\ stock_data = <<>>
    /\ total_invested = 0
    /\ apc = "start"
    /\ trim_i = 0
    /\ last_step = NoStep
    /\ allocation = NoAllocation

AllocInit == \E inp \in AllocInputs : AllocStart(inp)

(* Lines 45 and 48: current_prices[symbol] raises KeyError for a symbol    *)
(* the price map lacks, target_amount / price raises ZeroDivisionError for *)
(* a price of 0.  The first symbol, in the order of the weights, at which  *)
(* one of them happens; 0 when there is none.                              *)
RECURSIVE FirstRaise(_, _, _)
FirstRaise(i, ws, prices) ==
    IF i > Len(ws) THEN 0
    ELSE IF i \notin DOMAIN prices \/ prices[i] = 0 THEN i
    ELSE FirstRaise(i + 1, ws, prices)

(* Lines 43-48: the exception leaves create_optimized_portfolio, which has *)
(* no handler; its locals are lost and nothing is returned.                *)
AllocInitialPassRaises ==
    /\ apc = "start"
    /\ LET i == FirstRaise(1, weights, current_prices)
       IN  /\ i > 0
           /\ last_step' = [kind |-> IF i \notin DOMAIN current_prices
                                     THEN "KeyError" ELSE "ZeroDivisionError",
                            symbol |-> i]
    /\ apc' = "raised"
    /\ UNCHANGED <<allocation, investment, weights, current_prices, stock_data,
                   total_invested, trim_i>>
    /\ UNCHANGED <<rvars, ovars, fvars, cvars, wvars, svars>>

(* A variant of the initial pass that leaves total_invested at 0.          *)
AllocInitialPassNoTotal ==
    /\ apc = "start"
    /\ FirstRaise(1, weights, current_prices) = 0
    /\ stock_data' = InitialPass(1, weights, investment, current_prices)
    /\ total_invested' = 0
    /\ apc' = "fill"
    /\ last_step' = NoStep
    /\ UNCHANGED <<allocation, investment, weights, current_prices, trim_i>>
    /\ UNCHANGED <<rvars, ovars, fvars, cvars, wvars, svars>>

(* Lines 39-59: the initial pass over the weights.                         *)
AllocInitialPass ==
    /\ apc = "start"
    /\ FirstRaise(1, weights, current_prices) = 0
    /\ LET sd == InitialPass(1, weights, investment, current_prices)
       IN  /\ stock_data' = sd
           /\ total_invested' = SumAmounts(sd)
    /\ apc' = "fill"
    /\ last_step' = NoStep
    /\ UNCHANGED <<allocation, investment, weights, current_prices, trim_i>>
    /\ UNCHANGED <<rvars, ovars, fvars, cvars, wvars, svars>>

(* Lines 89-104, one iteration of the while loop in which a line takes a   *)
(* share.                                                                  *)
FillAddShare ==
    /\ apc = "fill"
    /\ BelowMin(total_invested, investment)
    /\ LET sorted == SortDesc(stock_data)
           i == FirstFit(sorted, 1, total_invested, investment)
       IN  /\ i > 0
           /\ stock_data' = AddShareAt(sorted, i)
           /\ total_invested' = SumAmounts(AddShareAt(sorted, i))
           /\ last_step' = [kind |-> "add", symbol |-> sorted[i].symbol]
           /\ apc' = IF total_invested' * 100 >= investment * MaxUsagePct
                     THEN "trim" ELSE "fill"
    /\ UNCHANGED <<allocation, investment, weights, current_prices, trim_i>>
    /\ UNCHANGED <<rvars, ovars, fvars, cvars, wvars, svars>>

(* A variant without the no-progress guard of line 103.                    *)
FillNoProgressNoGuard ==
    /\ apc = "fill"
    /\ BelowMin(total_invested, investment)
    /\ LET sorted == SortDesc(stock_data)
       IN  /\ FirstFit(sorted, 1, total_invested, investment) = 0
           /\ stock_data' = sorted
    /\ apc' = "fill"
    /\ last_step' = NoStep
    /\ UNCHANGED <<allocation, investment, weights, current_prices, total_invested, trim_i>>
    /\ UNCHANGED <<rvars, ovars, fvars, cvars, wvars, svars>>

(* Lines 89-104, the iteration in which no line fits: the no-progress      *)
(* guard leaves the loop.                                                  *)
FillNoProgress ==
    /\ apc = "fill"
    /\ BelowMin(total_invested, investment)
    /\ LET sorted == SortDesc(stock_data)
       IN  /\ FirstFit(sorted, 1, total_invested, investment) = 0
           /\ stock_data' = sorted
    /\ apc' = "trim"
    /\ last_step' = NoStep
    /\ UNCHANGED <<allocation, investment, weights, current_prices, total_invested, trim_i>>
    /\ UNCHANGED <<rvars, ovars, fvars, cvars, wvars, svars>>

(* Line 89: the while condition is false.                                  *)
FillBandReached ==
    /\ apc = "fill"
    /\ ~BelowMin(total_invested, investment)
    /\ apc' = "trim"
    /\ last_step' = NoStep
    /\ UNCHANGED <<allocation, investment, weights, current_prices, stock_data,
                   total_invested, trim_i>>
    /\ UNCHANGED <<rvars, ovars, fvars, cvars, wvars, svars>>

(* Lines 107-108: the trim pass starts, or is skipped.                     *)
TrimStart ==
    /\ apc = "trim"
    /\ IF ~WithinMax(total_invested, investment)
       THEN /\ stock_data' = SortAsc(stock_data)
            /\ trim_i' = 1
            /\ apc' = IF stock_data = <<>> THEN "final" ELSE "trimloop"
       ELSE /\ apc' = "final"
            /\ UNCHANGED <<stock_data, trim_i>>
    /\ last_step' = NoStep
    /\ UNCHANGED <<allocation, investment, weights, current_prices, total_invested>>
    /\ UNCHANGED <<rvars, ovars, fvars, cvars, wvars, svars>>

(* Lines 110-114: one share leaves the current line.                       *)
TrimRemoveShare ==
    /\ apc = "trimloop"
    /\ ~WithinMax(total_invested, investment)
    /\ stock_data[trim_i].shares > 0
    /\ stock_data' = RemoveShareAt(stock_data, trim_i)
    /\ total_invested' = SumAmounts(RemoveShareAt(stock_data, trim_i))
    /\ last_step' = [kind |-> "remove", symbol |-> stock_data[trim_i].symbol]
    /\ UNCHANGED <<allocation, investment, weights, current_prices, apc, trim_i>>
    /\ UNCHANGED <<rvars, ovars, fvars, cvars, wvars, svars>>

(* Lines 110, 115-116: the inner while is over; leave the pass or go to    *)
(* the next line.                                                          *)
TrimNextLine ==
    /\ apc = "trimloop"
    /\ \/ WithinMax(total_invested, investment)
       \/ stock_data[trim_i].shares = 0
    /\ IF WithinMax(total_invested, investment) \/ trim_i = Len(stock_data)
       THEN apc' = "final" /\ UNCHANGED trim_i
       ELSE apc' = "trimloop" /\ trim_i' = trim_i + 1
    /\ last_step' = NoStep
    /\ UNCHANGED <<allocation, investment, weights, current_prices, stock_data, total_invested>>
    /\ UNCHANGED <<rvars, ovars, fvars, cvars, wvars, svars>>

(* The dict of lines 77-83.                                                *)
Allocation(sd, total, inv) ==
    [returned |-> TRUE, stock_data |-> sd, total_invested |-> total,
     investment |-> inv, remaining |-> inv - total]

(* A variant of the final pass that returns the lines with the weights     *)
(* they came with.                                                         *)
FinalizeKeepWeights ==
    /\ apc = "final"
    /\ total_invested' = SumAmounts(stock_data)
    /\ allocation' = Allocation(stock_data, SumAmounts(stock_data), investment)
    /\ apc' = "done"
    /\ last_step' = NoStep
    /\ UNCHANGED <<investment, weights, current_prices, stock_data, trim_i>>
    /\ UNCHANGED <<rvars, ovars, fvars, cvars, wvars, svars>>

(* Lines 71-83: the final pass and the return.                             *)
Finalize ==
    /\ apc = "final"
    /\ LET total == SumAmounts(stock_data)
           sd == [i \in 1..Len(stock_data) |->
                     [stock_data[i] EXCEPT
                         !.weight = <<stock_data[i].amount, total>>]]
       IN  /\ total_invested' = total
           /\ stock_data' = sd
           /\ allocation' = Allocation(sd, total, investment)
    /\ apc' = "done"
    /\ last_step' = NoStep
    /\ UNCHANGED <<investment, weights, current_prices, trim_i>>
    /\ UNCHANGED <<rvars, ovars, fvars, cvars, wvars, svars>>

AllocNext ==
    \/ AllocInitialPass
    \/ FillAddShare
    \/ FillNoProgress
    \/ FillBandReached
    \/ TrimStart
    \/ TrimRemoveShare
    \/ TrimNextLine
    \/ Finalize

-----------------------------------------------------------------------------
(* The variables of the parts a specification leaves alone.                *)
AllocIdle ==
    /\ investment = 0 /\ weights = <<>> /\ current_prices = <<>>
    /\ stock_data = <<>> /\ total_invested = 0 /\ apc = "idle"
    /\ trim_i = 0 /\ last_step = [kind |-> "none", symbol |-> 0]
    /\ allocation = NoAllocation
RiskIdle == optimizers = <<>>
NoResult == [success |-> FALSE, error |-> "absent", weights |-> "absent", run |-> 0, utility |-> 0]
NoOutcome == [kind |-> "none", exc |-> "none", msg |-> "none",
              weights |-> "absent", run |-> 0, utility |-> 0]
MaxCalls == 2
(* Starting point -1 is the CVXPY problem, 0 the uniform weights of line   *)
(* 121, k >= 1 the k-th draw of the global generator (lines 156-157).      *)
StartPoints == (-1)..(2 * MaxCalls)
Unsolved == [known |-> FALSE, end |-> "none", ok |-> FALSE, utility |-> 0]
NothingSolved == [p \in StartPoints |-> Unsolved]
OptIdle ==
    /\ num_stocks = 0 /\ returns_data = "none" /\ risk_level = "Medium"
    /\ opc = "idle" /\ calls = <<>> /\ result = NoResult /\ scipy_i = 0
    /\ best_result = 0 /\ best_utility = -1 /\ outcome = NoOutcome
    /\ rng = 0 /\ solved = NothingSolved /\ history = <<>>
FilterIdle ==
    /\ solver_x = <<>>
    /\ fparams = [max_weight |-> 0, min_stocks |-> 0, risk_aversion |-> 0,
                  volatility_penalty |-> 0]
    /\ filtered_weights = <<>>
    /\ fpc = "idle"
CleanIdle == raw_returns = <<>> /\ cleaned_data = <<>> /\ cpc = "idle"
NoneStocks == [none |-> TRUE, lines |-> <<>>]
WidgetIdle ==
    /\ add_button = FALSE /\ optimized_stocks = NoneStocks
    /\ portfolio_index = 0 /\ add_stock_calls = <<>>
    /\ message = "none" /\ handler = "idle" /\ events = 0
StockIdle == stock_table = <<>> /\ stock_seq = 0 /\ add_log = <<>>

-----------------------------------------------------------------------------
(* MarkowitzOptimizer: the risk parameters.  max_weight, risk_aversion and *)
(* volatility_penalty are in ten-thousandths (0.15 is 1500, 1.5 is 15000). *)
Levels == {"Low", "Medium", "High"}
Horizons == {3, 5, 6, 12, 36, 37, 48}
MaxOptimizers == 3

Row(mw, ms, ra, vp) ==
    [max_weight |-> mw, min_stocks |-> ms, risk_aversion |-> ra,
     volatility_penalty |-> vp]

(* Lines 264-275: a new dict on every call.                                *)
initialize_risk_params ==
    [l \in Levels |->
        CASE l = "Low" -> Row(1500, 8, 15000, 15000)
          [] l = "Medium" -> Row(2500, 5, 10000, 10000)
          [] l = "High" -> Row(3500, 3, 5000, 5000)]

(* A variant of the long-horizon factor that leaves the value as it is.    *)
TimesUnchanged(x) == x
(* x *= 0.8 and x *= 1.5                                                   *)
Times08(x) == (x * 8) \div 10
Times15(x) == (x * 15) \div 10

(* A variant that also adjusts a horizon of exactly 36 or 6 months.        *)
adjust_inclusive(table, level, period) ==
    IF period >= 36
    THEN [table EXCEPT ![level].risk_aversion = Times08(@),
                       ![level].volatility_penalty = Times08(@)]
    ELSE IF period <= 6
    THEN [table EXCEPT ![level].risk_aversion = Times15(@),
                       ![level].volatility_penalty = Times15(@),
                       ![level].max_weight = Times08(@),
                       ![level].min_stocks = @ + 2]
    ELSE table

(* Lines 277-289: the row of the selected level is changed in place.       *)
adjust_for_investment_period(table, level, period) ==
    IF period > 36
    THEN [table EXCEPT ![level].risk_aversion = Times08(@),
                       ![level].volatility_penalty = Times08(@)]
    ELSE IF period < 6
    THEN [table EXCEPT ![level].risk_aversion = Times15(@),
                       ![level].volatility_penalty = Times15(@),
                       ![level].max_weight = Times08(@),
                       ![level].min_stocks = @ + 2]
    ELSE table

(* Lines 233-236: the risk attributes of a new optimizer.                  *)
Constructed(level, period) ==
    [risk_level |-> level, investment_period |-> period,
     risk_params |-> adjust_for_investment_period(
                         initialize_risk_params, level, period)]

(* A variant whose table is the one the previous optimizer left behind.    *)
MarkowitzOptimizerSharedTable(level, period) ==
    /\ Len(optimizers) < MaxOptimizers
    /\ LET table == IF optimizers = <<>> THEN initialize_risk_params
                    ELSE optimizers[Len(optimizers)].risk_params
       IN  optimizers' = Append(optimizers,
               [risk_level |-> level, investment_period |-> period,
                risk_params |-> adjust_for_investment_period(table, level, period)])
    /\ UNCHANGED <<avars, ovars, fvars, cvars, wvars, svars>>

(* Lines 221-239: __init__.                                                *)
MarkowitzOptimizer(level, period) ==
    /\ Len(optimizers) < MaxOptimizers
    /\ optimizers' = Append(optimizers, Constructed(level, period))
    /\ UNCHANGED <<avars, ovars, fvars, cvars, wvars, svars>>

RiskInit == AllocIdle /\ RiskIdle /\ OptIdle /\ FilterIdle /\ CleanIdle /\ WidgetIdle /\ StockIdle
RiskNext == \E level \in Levels, period \in Horizons : MarkowitzOptimizer(level, period)
SpecRisk == RiskInit /\ [][RiskNext]_vars

-----------------------------------------------------------------------------
(* MarkowitzOptimizer.optimize_portfolio and the two strategies.           *)
(* A result dict is a record; "absent" stands for a key the dict lacks.    *)
(* The solvers are outside the repository: what a solve ends with is       *)
(* chosen freely among the outcomes the calling code distinguishes.        *)
MaxStocks == 22
MaxUtility == 2
CvxpyMaxStocks == 20
ScipyRuns == 3
DefaultPeriod == 12

(* "regular": the covariance of the returns is a finite symmetric matrix.  *)
(* "degenerate": it is not (a single period or an all-missing column       *)
(* gives NaN entries), and cp.quad_form may refuse it with a ValueError    *)
(* when the problem is built, at line 66.                                  *)
ReturnsKinds == {"regular", "degenerate"}
SolveEnds == {"optimal", "optimal_inaccurate", "infeasible", "exception"}

(* The optimizer whose optimize_portfolio runs: the one constructed last,  *)
(* or one of the default horizon when the construction is not followed.    *)
Self ==
    IF optimizers = <<>> THEN Constructed(risk_level, DefaultPeriod)
    ELSE optimizers[Len(optimizers)]

(* A variant that adjusts the row for the horizon again at every call.     *)
StrategyArgsReadjusted ==
    [symbols |-> num_stocks, returns |-> returns_data,
     risk |-> adjust_for_investment_period(
                  Self.risk_params, Self.risk_level,
                  Self.investment_period)[Self.risk_level]]

(* Lines 329-333: self.risk_params[self.risk_level] is what a strategy     *)
(* gets.                                                                   *)
StrategyArgs ==
    [symbols |-> num_stocks, returns |-> returns_data,
     risk |-> Self.risk_params[risk_level]]

Invocation(strategy) ==
    [strategy |-> strategy, args |-> StrategyArgs, ended |-> "running",
     result |-> NoResult, error |-> "none"]

EndLastCall(cs, how, res, err) ==
    [cs EXCEPT ![Len(cs)].ended = how, ![Len(cs)].result = res,
               ![Len(cs)].error = err]

(* A variant that sends a universe of exactly 20 to SciPy.                 *)
UseCvxpyBelow(n) == n < CvxpyMaxStocks
(* Line 328: if num_stocks <= 20.                                          *)
UseCvxpyFirst(n) == n <= CvxpyMaxStocks

OptRequest ==
    /\ num_stocks \in 1..MaxStocks
    /\ returns_data \in ReturnsKinds
    /\ risk_level \in Levels
    /\ opc = "start"
    /\ calls = <<>>
    /\ result = NoResult
    /\ scipy_i = 0
    /\ best_result = 0
    /\ best_utility = -1
    /\ outcome = NoOutcome
    /\ rng = 0
    /\ solved = NothingSolved
    /\ history = <<>>

(* Lines 325-334 and 343-349: the first strategy is invoked.               *)
OptStart ==
    /\ opc = "start"
    /\ IF UseCvxpyFirst(num_stocks)
       THEN /\ calls' = Append(calls, Invocation("cvxpy"))
            /\ opc' = "cvxpy"
       ELSE /\ calls' = Append(calls, Invocation("scipy"))
            /\ opc' = "scipy"
    /\ UNCHANGED <<rng, solved, history, num_stocks, returns_data, risk_level, result, scipy_i,
                   best_result, best_utility, outcome>>
    /\ UNCHANGED <<avars, rvars, fvars, cvars, wvars, svars>>

(* Lines 47-71 of CVXPYOptimizationStrategy.optimize are outside its try:  *)
(* an exception raised while the problem is built leaves optimize and      *)
(* optimize_portfolio, which has no handler either.                        *)
CvxpySetupRaises ==
    /\ opc = "cvxpy"
    /\ returns_data = "degenerate"
    /\ solved[-1].known => solved[-1].end = "raised"
    /\ solved' = [solved EXCEPT ![-1] =
                     [known |-> TRUE, end |-> "raised", ok |-> FALSE, utility |-> 0]]
    /\ calls' = EndLastCall(calls, "raised", NoResult, "quad_form")
    /\ outcome' = [kind |-> "raised", exc |-> "ValueError", msg |-> "quad_form",
                   weights |-> "absent", run |-> 0, utility |-> 0]
    /\ opc' = "done"
    /\ UNCHANGED <<rng, history, num_stocks, returns_data, risk_level, result, scipy_i,
                   best_result, best_utility>>
    /\ UNCHANGED <<avars, rvars, fvars, cvars, wvars, svars>>

(* Lines 72-99: the solve inside the try, and the result it returns.       *)
CvxpyResult(end) ==
    CASE end \in {"optimal", "optimal_inaccurate"} ->
             [success |-> TRUE, error |-> "absent", weights |-> "cvxpy", run |-> 0, utility |-> 0]
      [] end = "infeasible" ->
             [success |-> FALSE, error |-> "absent", weights |-> "absent", run |-> 0, utility |-> 0]
      [] end = "exception" ->
             [success |-> FALSE, error |-> "solver error", weights |-> "absent",
              run |-> 0, utility |-> 0]

(* prob.solve is a function of the problem: a problem solved before ends  *)
(* as it did then.                                                         *)
CvxpySolve ==
    /\ opc = "cvxpy"
    /\ \E end \in SolveEnds :
          /\ solved[-1].known => end = solved[-1].end
          /\ solved' = [solved EXCEPT ![-1] =
                           [known |-> TRUE, end |-> end, ok |-> FALSE, utility |-> 0]]
          /\ result' = CvxpyResult(end)
          /\ calls' = EndLastCall(calls, "returned", CvxpyResult(end), "none")
    /\ opc' = "after_cvxpy"
    /\ UNCHANGED <<rng, history, num_stocks, returns_data, risk_level, scipy_i,
                   best_result, best_utility, outcome>>
    /\ UNCHANGED <<avars, rvars, fvars, cvars, wvars, svars>>

(* Lines 336-342: the fallback after a failed CVXPY result.                *)
Fallback ==
    /\ opc = "after_cvxpy"
    /\ IF ~result.success
       THEN /\ calls' = Append(calls, Invocation("scipy"))
            /\ opc' = "scipy"
       ELSE /\ opc' = "check"
            /\ UNCHANGED calls
    /\ UNCHANGED <<rng, solved, history, num_stocks, returns_data, risk_level, result, scipy_i,
                   best_result, best_utility, outcome>>
    /\ UNCHANGED <<avars, rvars, fvars, cvars, wvars, svars>>

(* Line 163: utility = -objective_function(optimized.x), a float.  On     *)
(* "degenerate" returns the covariance of calculate_performance has NaN    *)
(* entries and the utility of every point is NaN; NanUtility stands for    *)
(* it.                                                                     *)
NanUtility == -2
Utilities(kind) == IF kind = "degenerate" THEN {NanUtility} ELSE 0..MaxUtility
(* Line 164: utility > best_utility, which is false for a NaN.             *)
Exceeds(u, b) == u # NanUtility /\ u > b

(* Lines 154-166: one of the three minimize runs.  The first starts from   *)
(* the uniform weights, the others from weights drawn from the global      *)
(* generator np.random, which the module never seeds.  minimize is a       *)
(* function of its starting point: the same point gives what it gave       *)
(* before.  The optimum found is told by its utility.                      *)
ScipyRun ==
    /\ opc = "scipy"
    /\ scipy_i < ScipyRuns
    /\ LET start == IF scipy_i = 0 THEN 0 ELSE rng + 1
       IN  \E ok \in BOOLEAN, utility \in (0..MaxUtility) \cup {NanUtility} :
              /\ utility \in IF ok THEN Utilities(returns_data) ELSE {0}
              /\ solved[start].known =>
                     ok = solved[start].ok /\ utility = solved[start].utility
              /\ solved' = [solved EXCEPT ![start] =
                               [known |-> TRUE, end |-> "none", ok |-> ok,
                                utility |-> utility]]
              /\ IF ok /\ Exceeds(utility, best_utility)
                 THEN best_result' = scipy_i + 1 /\ best_utility' = utility
                 ELSE UNCHANGED <<best_result, best_utility>>
    /\ rng' = IF scipy_i = 0 THEN rng ELSE rng + 1
    /\ scipy_i' = scipy_i + 1
    /\ UNCHANGED <<history, num_stocks, returns_data, risk_level, opc, calls,
                   result, outcome>>
    /\ UNCHANGED <<avars, rvars, fvars, cvars, wvars, svars>>

(* Lines 168-190: what SciPyOptimizationStrategy.optimize returns.         *)
ScipyResult ==
    IF best_result # 0
    THEN [success |-> TRUE, error |-> "absent", weights |-> "scipy",
          run |-> best_result, utility |-> best_utility]
    ELSE [success |-> FALSE, error |-> "Optimization failed.",
          weights |-> "absent", run |-> 0, utility |-> 0]

ScipyReturn ==
    /\ opc = "scipy"
    /\ scipy_i = ScipyRuns
    /\ result' = ScipyResult
    /\ calls' = EndLastCall(calls, "returned", ScipyResult, "none")
    /\ opc' = "check"
    /\ scipy_i' = 0
    /\ best_result' = 0
    /\ best_utility' = -1
    /\ UNCHANGED <<rng, solved, history, num_stocks, returns_data, risk_level, outcome>>
    /\ UNCHANGED <<avars, rvars, fvars, cvars, wvars, svars>>

(* A variant that answers a failure with equal weights.                    *)
OptRaiseSynthesized ==
    /\ opc = "check"
    /\ ~result.success
    /\ outcome' = [kind |-> "returned", exc |-> "none", msg |-> "none",
                   weights |-> "uniform", run |-> 0, utility |-> 0]
    /\ opc' = "done"
    /\ UNCHANGED <<rng, solved, history, num_stocks, returns_data, risk_level, calls, result, scipy_i,
                   best_result, best_utility>>
    /\ UNCHANGED <<avars, rvars, fvars, cvars, wvars, svars>>

(* Lines 351-352: raise ValueError(result.get('error', ...)).              *)
OptRaise ==
    /\ opc = "check"
    /\ ~result.success
    /\ outcome' = [kind |-> "raised", exc |-> "ValueError",
                   msg |-> IF result.error = "absent" THEN "Optimization failed."
                           ELSE result.error,
                   weights |-> "absent", run |-> 0, utility |-> 0]
    /\ opc' = "done"
    /\ UNCHANGED <<rng, solved, history, num_stocks, returns_data, risk_level, calls, result, scipy_i,
                   best_result, best_utility>>
    /\ UNCHANGED <<avars, rvars, fvars, cvars, wvars, svars>>

(* Lines 354-362: the result is returned.                                  *)
OptReturn ==
    /\ opc = "check"
    /\ result.success
    /\ outcome' = [kind |-> "returned", exc |-> "none", msg |-> "none",
                   weights |-> result.weights, run |-> result.run, utility |-> result.utility]
    /\ opc' = "done"
    /\ UNCHANGED <<rng, solved, history, num_stocks, returns_data, risk_level, calls, result, scipy_i,
                   best_result, best_utility>>
    /\ UNCHANGED <<avars, rvars, fvars, cvars, wvars, svars>>

OptNext ==
    \/ OptStart
    \/ CvxpySetupRaises
    \/ CvxpySolve
    \/ Fallback
    \/ ScipyRun
    \/ ScipyReturn
    \/ OptRaise
    \/ OptReturn

(* The same optimizer is asked again: a second optimize_portfolio call in  *)
(* the same process, with the inputs of the first.                         *)
OptAgain ==
    /\ opc = "done"
    /\ Len(history) < MaxCalls - 1
    /\ history' = Append(history, outcome)
    /\ opc' = "start"
    /\ calls' = <<>>
    /\ result' = NoResult
    /\ outcome' = NoOutcome
    /\ UNCHANGED <<rng, solved, num_stocks, returns_data, risk_level, scipy_i,
                   best_result, best_utility>>
    /\ UNCHANGED <<avars, rvars, fvars, cvars, wvars, svars>>

OptInit == AllocIdle /\ RiskIdle /\ OptRequest /\ FilterIdle /\ CleanIdle /\ WidgetIdle /\ StockIdle
SpecOpt == OptInit /\ [][OptNext]_vars

(* A process that optimizes the same request MaxCalls times, for universes *)
(* on both sides of the routing threshold.                                 *)
ProcessInit ==
    /\ OptInit
    /\ num_stocks \in {CvxpyMaxStocks, CvxpyMaxStocks + 1}
ProcessNext == OptNext \/ OptAgain
SpecProcess == ProcessInit /\ [][ProcessNext]_vars

(* One optimizer, constructed for a risk level and a horizon, whose        *)
(* optimize_portfolio is called MaxCalls times on a universe at the        *)
(* routing threshold.                                                      *)
LifeHorizons == {3, DefaultPeriod, 48}
LifeInit ==
    /\ AllocIdle /\ FilterIdle /\ CleanIdle /\ WidgetIdle /\ StockIdle
    /\ OptRequest
    /\ num_stocks = CvxpyMaxStocks
    /\ \E period \in LifeHorizons :
          optimizers = <<Constructed(risk_level, period)>>
SpecLife == LifeInit /\ [][ProcessNext]_vars

-----------------------------------------------------------------------------
(* The weight filter both strategies end with (lines 82-86 and 176-180).   *)
(* The solver's weights are in millionths, the returned weights, rounded   *)
(* to four places, in ten-thousandths.  A decimal tie of round() is taken  *)
(* to the even neighbour.                                                  *)
MaxUniverse == 31
Million == 1000 * 1000
FilterPeriods == {3, 12, 48}

RoundDiv(a, b) ==
    LET q == a \div b
        r == a % b
    IN  IF 2 * r < b THEN q
        ELSE IF 2 * r > b THEN q + 1
        ELSE IF q % 2 = 0 THEN q ELSE q + 1

(* round(w, 4)                                                             *)
Round4(x) == RoundDiv(x, 100)

(* The solver outputs considered: k weights at the cap max_weight and the  *)
(* rest of the mass spread evenly over the other n - k assets.             *)
TwoLevel(n, k, cap) ==
    LET rest == Million - k * cap
        m == n - k
    IN  [i \in 1..n |->
            IF i <= k THEN cap
            ELSE (rest \div m) + (IF i - k <= rest % m THEN 1 ELSE 0)]

RECURSIVE SumSeq(_)
SumSeq(x) == IF x = <<>> THEN 0 ELSE Head(x) + SumSeq(Tail(x))

(* Lines 60-62: sum(w) == 1, w >= 0, w <= max_weight.                      *)
Feasible(x, cap) ==
    /\ SumSeq(x) = Million
    /\ \A i \in 1..Len(x) : x[i] >= 0 /\ x[i] <= cap

RECURSIVE SumFiltered(_)
SumFiltered(fw) == IF fw = <<>> THEN 0 ELSE Head(fw).weight + SumFiltered(Tail(fw))

(* Line 83: {s: round(w, 4) for s, w in zip(...) if w > 0.005}             *)
RECURSIVE KeepAndRound(_, _)
KeepAndRound(x, i) ==
    IF i > Len(x) THEN <<>>
    ELSE (IF x[i] > 5000 THEN <<[symbol |-> i, weight |-> Round4(x[i])]>> ELSE <<>>)
         \o KeepAndRound(x, i + 1)

(* Line 86: {s: round(w / total_weight, 4) for s, w in ...}                *)
Renormalized(fw, total) ==
    [i \in 1..Len(fw) |->
        [fw[i] EXCEPT !.weight = RoundDiv(fw[i].weight * 10000, total)]]

FilterInit ==
    /\ AllocIdle /\ RiskIdle /\ OptIdle /\ CleanIdle /\ WidgetIdle /\ StockIdle
    /\ \E level \in Levels, period \in FilterPeriods, n \in 1..MaxUniverse :
          LET row == adjust_for_investment_period(
                         initialize_risk_params, level, period)[level]
              cap == row.max_weight * 100
          IN  \E k \in 0..(n - 1) :
                 /\ k * cap <= Million
                 /\ Feasible(TwoLevel(n, k, cap), cap)
                 /\ solver_x = TwoLevel(n, k, cap)
                 /\ fparams = row
    /\ filtered_weights = <<>>
    /\ fpc = "solved"

(* Lines 83-84.                                                            *)
FilterWeights ==
    /\ fpc = "solved"
    /\ filtered_weights' = KeepAndRound(solver_x, 1)
    /\ fpc' = "filtered"
    /\ UNCHANGED <<solver_x, fparams>>
    /\ UNCHANGED <<avars, rvars, ovars, cvars, wvars, svars>>

(* Lines 85-86: total_weight < 0.999.                                      *)
Renormalize ==
    /\ fpc = "filtered"
    /\ SumFiltered(filtered_weights) < 9990
    /\ filtered_weights' = Renormalized(filtered_weights, SumFiltered(filtered_weights))
    /\ fpc' = "returned"
    /\ UNCHANGED <<solver_x, fparams>>
    /\ UNCHANGED <<avars, rvars, ovars, cvars, wvars, svars>>

(* Line 85, the test fails: the rounded weights are returned as they are.  *)
ReturnUnscaled ==
    /\ fpc = "filtered"
    /\ SumFiltered(filtered_weights) >= 9990
    /\ fpc' = "returned"
    /\ UNCHANGED <<solver_x, fparams, filtered_weights>>
    /\ UNCHANGED <<avars, rvars, ovars, cvars, wvars, svars>>

FilterNext ==
    \/ FilterWeights
    \/ Renormalize
    \/ ReturnUnscaled

SpecFilter == FilterInit /\ [][FilterNext]_vars

-----------------------------------------------------------------------------
(* MarkowitzOptimizer.clean_returns_data (lines 241-262).  A matrix is a   *)
(* sequence of rows, a row a sequence of cells; a cell is NaN, +inf, -inf  *)
(* or a number.  Numbers are in units of 1 / CleanScale, which makes the   *)
(* mean of up to three values and the 1st and 99th percentiles exact.      *)
CleanScale == 100 * 6
Shapes == {<<1, 1>>, <<2, 1>>, <<3, 1>>, <<2, 2>>}
RawValues == {-1, 0, 2}

NaN == [kind |-> "nan", v |-> 0]
PosInf == [kind |-> "pinf", v |-> 0]
NegInf == [kind |-> "ninf", v |-> 0]
Num(x) == [kind |-> "num", v |-> x]
RawCells == {NaN, PosInf, NegInf} \cup {Num(x * CleanScale) : x \in RawValues}
Matrices(shape) == [1..shape[1] -> [1..shape[2] -> RawCells]]

Cols(m) == 1..Len(m[1])
Rows(m) == 1..Len(m)

(* Line 251: returns_data.replace([np.inf, -np.inf], np.nan), a new frame. *)
ReplaceInf(m) ==
    [r \in Rows(m) |-> [c \in Cols(m) |->
        IF m[r][c].kind \in {"pinf", "ninf"} THEN NaN ELSE m[r][c]]]

(* The values of a column that are not NaN, in row order.                  *)
RECURSIVE ColValues(_, _, _)
ColValues(m, c, r) ==
    IF r > Len(m) THEN <<>>
    ELSE (IF m[r][c].kind = "num" THEN <<m[r][c].v>> ELSE <<>>)
         \o ColValues(m, c, r + 1)

(* A variant of the column mean that averages the whole frame.             *)
RECURSIVE FrameValues(_, _)
FrameValues(m, c) ==
    IF c > Len(m[1]) THEN <<>> ELSE ColValues(m, c, 1) \o FrameValues(m, c + 1)
FrameMean(m, c) ==
    LET vs == FrameValues(m, 1)
    IN  IF vs = <<>> THEN NaN ELSE Num(SumSeq(vs) \div Len(vs))

(* Line 254: cleaned_data[col].mean() skips NaN; NaN for a column that has *)
(* nothing else.                                                           *)
ColMean(m, c) ==
    LET vs == ColValues(m, c, 1)
    IN  IF vs = <<>> THEN NaN ELSE Num(SumSeq(vs) \div Len(vs))

(* Line 255: fillna(col_mean), column by column.                           *)
Fillna(m) ==
    [r \in Rows(m) |-> [c \in Cols(m) |->
        IF m[r][c].kind = "nan" THEN ColMean(m, c) ELSE m[r][c]]]

RECURSIVE InsertNum(_, _)
InsertNum(x, s) ==
    IF s = <<>> THEN <<x>>
    ELSE IF x < Head(s) THEN <<x>> \o s
    ELSE <<Head(s)>> \o InsertNum(x, Tail(s))
RECURSIVE SortNums(_)
SortNums(s) == IF s = <<>> THEN <<>> ELSE InsertNum(Head(s), SortNums(Tail(s)))

(* Lines 258-259: Series.quantile(q / 100) with linear interpolation, NaN  *)
(* skipped; NaN for a column of NaN.                                       *)
Quantile(m, c, q) ==
    LET vs == SortNums(ColValues(m, c, 1))
        h == q * (Len(vs) - 1)
        lo == (h \div 100) + 1
        fr == h % 100
    IN  IF vs = <<>> THEN NaN
        ELSE IF fr = 0 THEN Num(vs[lo])
        ELSE Num(vs[lo] + (fr * (vs[lo + 1] - vs[lo])) \div 100)

(* Line 260: clip(q_low, q_high); a NaN bound clips nothing.               *)
ClipCell(cell, q_low, q_high) ==
    IF cell.kind # "num" \/ q_low.kind # "num" THEN cell
    ELSE IF cell.v < q_low.v THEN q_low
    ELSE IF cell.v > q_high.v THEN q_high
    ELSE cell
Clip(m) ==
    [r \in Rows(m) |-> [c \in Cols(m) |->
        ClipCell(m[r][c], Quantile(m, c, 1), Quantile(m, c, 99))]]

CleanInit ==
    /\ AllocIdle /\ RiskIdle /\ OptIdle /\ FilterIdle /\ WidgetIdle /\ StockIdle
    /\ \E shape \in Shapes : raw_returns \in Matrices(shape)
    /\ cleaned_data = <<>>
    /\ cpc = "start"

(* Line 251.                                                               *)
CleanReplaceInf ==
    /\ cpc = "start"
    /\ cleaned_data' = ReplaceInf(raw_returns)
    /\ cpc' = "replaced"
    /\ UNCHANGED raw_returns
    /\ UNCHANGED <<avars, rvars, ovars, fvars, wvars, svars>>

(* Lines 253-255.                                                          *)
CleanFillna ==
    /\ cpc = "replaced"
    /\ cleaned_data' = Fillna(cleaned_data)
    /\ cpc' = "filled"
    /\ UNCHANGED raw_returns
    /\ UNCHANGED <<avars, rvars, ovars, fvars, wvars, svars>>

(* Lines 257-262.                                                          *)
CleanClip ==
    /\ cpc = "filled"
    /\ cleaned_data' = Clip(cleaned_data)
    /\ cpc' = "returned"
    /\ UNCHANGED raw_returns
    /\ UNCHANGED <<avars, rvars, ovars, fvars, wvars, svars>>

CleanNext ==
    \/ CleanReplaceInf
    \/ CleanFillna
    \/ CleanClip

SpecClean == CleanInit /\ [][CleanNext]_vars

-----------------------------------------------------------------------------
Init == AllocInit /\ RiskIdle /\ OptIdle /\ FilterIdle /\ CleanIdle /\ WidgetIdle /\ StockIdle
Next == AllocNext
Spec == Init /\ [][Next]_vars

(* create_optimized_portfolio runs to its return without interruption: a   *)
(* step of the allocation that can be taken is taken.                      *)
FairSpec == Spec /\ WF_vars(AllocNext)

(* The allocation for any budget and any price map: create_optimized_      *)
(* portfolio validates none of them.  A price map is a dict, which may     *)
(* lack symbols.  A negative budget is taken with non-negative prices      *)
(* only: with a negative price as well the fill-up loop has no end.        *)
AnyBudgets == {-2, 0, 3, 11}
AnyPrices == {-1, 0, 1, 2}
PriceMaps(n) == UNION { [S -> AnyPrices] : S \in SUBSET (1..n) }
AnyInputs ==
    UNION { { inp \in [investment : AnyBudgets,
                       weights : WeightVectors(n),
                       prices : PriceMaps(n)] :
                 inp.investment < 0 =>
                     \A i \in DOMAIN inp.prices : inp.prices[i] >= 0 } :
            n \in 1..MaxAssets }

AnyInit ==
    /\ \E inp \in AnyInputs : AllocStart(inp)
    /\ RiskIdle /\ OptIdle /\ FilterIdle /\ CleanIdle /\ WidgetIdle /\ StockIdle
AnyNext == AllocNext \/ AllocInitialPassRaises
SpecAny == AnyInit /\ [][AnyNext]_vars

(* The allocation for budgets, prices and weights of the size of a real    *)
(* request.                                                                *)
ExampleBudgets == {1000, 10000}
ExamplePrices == {50, 100, 400}
ExampleWeights == {<<1, 2>>, <<2, 2>>}
ExampleInputs ==
    UNION { [investment : ExampleBudgets,
             weights : [1..n -> ExampleWeights],
             prices : [1..n -> ExamplePrices]] : n \in 1..MaxAssets }

ExampleInit ==
    /\ \E inp \in ExampleInputs : AllocStart(inp)
    /\ RiskIdle /\ OptIdle /\ FilterIdle /\ CleanIdle /\ WidgetIdle /\ StockIdle
SpecExamples == ExampleInit /\ [][AllocNext]_vars

(* The allocation of one symbol more, with weights that may sum to more    *)
(* than 1.02: the requests in which the trim pass has shares to remove     *)
(* from more than one line.                                                *)
TrimBudgets == {3, 8}
TrimPrices == {1, 2}
TrimInputs ==
    [investment : TrimBudgets,
     weights : WeightVectors(MaxAssets + 1),
     prices : [1..(MaxAssets + 1) -> TrimPrices]]

TrimInit ==
    /\ \E inp \in TrimInputs : AllocStart(inp)
    /\ RiskIdle /\ OptIdle /\ FilterIdle /\ CleanIdle /\ WidgetIdle /\ StockIdle
SpecTrim == TrimInit /\ [][AllocNext]_vars

-----------------------------------------------------------------------------
(* PortfolioOptimizerWidget (ui/widgets/portfolio_optimizer.py): the       *)
(* optimize and add-to-portfolio handlers.  Qt runs one handler at a time, *)
(* to its end.  The widget computes the allocation with its own copy of    *)
(* the initial, fill-up and trim passes (lines 318-377); the requests      *)
(* taken here are those the initial pass settles, no fill-up share fitting *)
(* and nothing to trim.                                                    *)
MaxEvents == 4
Portfolios == <<11, 12>>
WidgetBudgets == {1000}
WidgetPrices == {400, 600}
WidgetWeights == {<<1, 2>>, <<2, 2>>}

Stocks(sd) == [none |-> FALSE, lines |-> sd]

Settled(inp) ==
    LET sd == InitialPass(1, inp.weights, inp.investment, inp.prices)
        total == SumAmounts(sd)
    IN  /\ WithinMax(total, inp.investment)
        /\ BelowMin(total, inp.investment) =>
               FirstFit(SortDesc(sd), 1, total, inp.investment) = 0

WidgetInputs ==
    UNION { { inp \in [investment : WidgetBudgets,
                       weights : [1..n -> WidgetWeights],
                       prices : [1..n -> WidgetPrices]] : Settled(inp) } :
            n \in 1..MaxAssets }

(* Lines 321-377 for a settled request: the lines of the initial pass,     *)
(* sorted once by the fill-up loop if it was entered, with the weights of  *)
(* line 377.                                                               *)
WidgetAllocation(inp) ==
    LET initial == InitialPass(1, inp.weights, inp.investment, inp.prices)
        total == SumAmounts(initial)
        sd == IF BelowMin(total, inp.investment) THEN SortDesc(initial)
              ELSE initial
    IN  [i \in 1..Len(sd) |-> [sd[i] EXCEPT !.weight = <<sd[i].amount, total>>]]

(* __init__, lines 184 and 226-229.                                        *)
WidgetStart ==
    /\ add_button = FALSE
    /\ optimized_stocks = NoneStocks
    /\ portfolio_index = 0
    /\ add_stock_calls = <<>>
    /\ message = "none"
    /\ handler = "__init__"
    /\ events = 0

(* optimize_portfolio, lines 302-401, when nothing raises.                 *)
WidgetOptimize(inp) ==
    /\ events < MaxEvents
    /\ optimized_stocks' = Stocks(WidgetAllocation(inp))
    /\ add_button' = TRUE
    /\ message' = "results"
    /\ handler' = "optimize_portfolio"
    /\ events' = events + 1
    /\ UNCHANGED <<portfolio_index, add_stock_calls>>
    /\ UNCHANGED <<avars, rvars, ovars, fvars, cvars, svars>>

(* optimize_portfolio when the optimizer or the allocation raises: lines   *)
(* 403-404 report the error, lines 400-401 are not reached.                *)
WidgetOptimizeRaises ==
    /\ events < MaxEvents
    /\ message' = "Error optimization"
    /\ handler' = "optimize_portfolio raised"
    /\ events' = events + 1
    /\ UNCHANGED <<add_button, optimized_stocks, portfolio_index, add_stock_calls>>
    /\ UNCHANGED <<avars, rvars, ovars, fvars, cvars, svars>>

(* The user picks an entry of portfolio_selector; entry 0 is the           *)
(* placeholder "Select Portfolio" (line 298).                              *)
WidgetSelect(k) ==
    /\ events < MaxEvents
    /\ portfolio_index' = k
    /\ handler' = "select"
    /\ events' = events + 1
    /\ UNCHANGED <<add_button, optimized_stocks, add_stock_calls, message>>
    /\ UNCHANGED <<avars, rvars, ovars, fvars, cvars, svars>>

(* The add_stock calls of lines 419-427, one per line.                     *)
AddStockCalls(portfolio_id, lines) ==
    [i \in 1..Len(lines) |->
        <<portfolio_id, lines[i].symbol, lines[i].shares, lines[i].price>>]

(* add_optimized_stocks, lines 406-442.  "not self.optimized_stocks" is    *)
(* true for None and for an empty list.  A call of add_stock that raises   *)
(* is reported and skipped (lines 429-434).                                *)
add_optimized_stocks ==
    /\ events < MaxEvents
    /\ handler' = "add_optimized_stocks"
    /\ events' = events + 1
    /\ IF optimized_stocks.none \/ optimized_stocks.lines = <<>>
       THEN /\ message' = "Please optimize portfolio first."
            /\ UNCHANGED <<add_button, optimized_stocks, add_stock_calls>>
       ELSE IF portfolio_index <= 0
       THEN /\ message' = "Please select a portfolio."
            /\ UNCHANGED <<add_button, optimized_stocks, add_stock_calls>>
       ELSE /\ add_stock_calls' = add_stock_calls \o
                   AddStockCalls(Portfolios[portfolio_index], optimized_stocks.lines)
            /\ \E added_count \in 0..Len(optimized_stocks.lines) :
                   message' = IF added_count > 0 THEN "stocks added to portfolio."
                              ELSE "No stocks could be added."
            /\ add_button' = FALSE
            /\ optimized_stocks' = NoneStocks
    /\ UNCHANGED portfolio_index
    /\ UNCHANGED <<avars, rvars, ovars, fvars, cvars, svars>>

WidgetInit ==
    /\ AllocIdle /\ RiskIdle /\ OptIdle /\ FilterIdle /\ CleanIdle /\ StockIdle
    /\ WidgetStart
WidgetNext ==
    \/ \E inp \in WidgetInputs : WidgetOptimize(inp)
    \/ WidgetOptimizeRaises
    \/ \E k \in 0..Len(Portfolios) : WidgetSelect(k)
    \/ add_optimized_stocks
SpecWidget == WidgetInit /\ [][WidgetNext]_vars

-----------------------------------------------------------------------------
(* StockManager.add_stock (domain/stock.py) on table stock                 *)
(* (data/database.py, lines 87-95).  The column quantity is an SQLite      *)
(* INTEGER, a signed 64-bit value: IntegerMax stands for 2^63 - 1, scaled  *)
(* to the quantities taken here.  Binding a larger Python int makes        *)
(* cursor.execute raise OverflowError.                                     *)
MaxAdds == 3
IntegerMax == 7
PortfolioIds == {1, 2}
StockSymbols == {"A", "B"}
AddQuantities == {1, 2, IntegerMax}
AddPrices == {10, 20}

StockRow(id, portfolio_id, symbol, quantity, price) ==
    [id |-> id, portfolio_id |-> portfolio_id, symbol |-> symbol,
     quantity |-> quantity, price |-> price]

(* Lines 36-39: the row of the pair, as a set of indices of the table.     *)
Existing(portfolio_id, symbol) ==
    {i \in 1..Len(stock_table) :
        /\ stock_table[i].portfolio_id = portfolio_id
        /\ stock_table[i].symbol = symbol}

(* Lines 74-93: the UPDATE, whose exception the method turns into a False  *)
(* that add_stock does not look at.                                        *)
update_stock_quantity(table, stock_id, quantity) ==
    IF quantity > IntegerMax THEN table
    ELSE [i \in 1..Len(table) |->
             IF table[i].id = stock_id
             THEN [table[i] EXCEPT !.quantity = quantity]
             ELSE table[i]]

(* Lines 23-52.                                                            *)
add_stock(portfolio_id, symbol, quantity, price) ==
    /\ Len(add_log) < MaxAdds
    /\ LET existing_stock == Existing(portfolio_id, symbol)
       IN  IF existing_stock # {}
           THEN LET row == stock_table[CHOOSE i \in existing_stock : TRUE]
                    new_quantity == row.quantity + quantity
                IN  /\ stock_table' =
                           update_stock_quantity(stock_table, row.id, new_quantity)
                    /\ add_log' = Append(add_log,
                           [portfolio_id |-> portfolio_id, symbol |-> symbol,
                            quantity |-> quantity, price |-> price,
                            returned |-> row.id])
                    /\ UNCHANGED stock_seq
           ELSE /\ stock_seq' = stock_seq + 1
                /\ stock_table' = Append(stock_table,
                       StockRow(stock_seq + 1, portfolio_id, symbol, quantity, price))
                /\ add_log' = Append(add_log,
                       [portfolio_id |-> portfolio_id, symbol |-> symbol,
                        quantity |-> quantity, price |-> price,
                        returned |-> stock_seq + 1])
    /\ UNCHANGED <<avars, rvars, ovars, fvars, cvars, wvars>>

(* A new database: _create_tables has made the empty table.                *)
StockInit ==
    /\ AllocIdle /\ RiskIdle /\ OptIdle /\ FilterIdle /\ CleanIdle /\ WidgetIdle
    /\ stock_table = <<>>
    /\ stock_seq = 0
    /\ add_log = <<>>
StockNext ==
    \E portfolio_id \in PortfolioIds, symbol \in StockSymbols,
       quantity \in AddQuantities, price \in AddPrices :
        add_stock(portfolio_id, symbol, quantity, price)
SpecStock == StockInit /\ [][StockNext]_vars

-----------------------------------------------------------------------------
(* The preconditions the allocation claims share.                          *)
RECURSIVE FracSum(_)
FracSum(ws) ==
    IF ws = <<>> THEN <<0, 1>>
    ELSE LET r == FracSum(Tail(ws))
         IN  <<Head(ws)[1] * r[2] + r[1] * Head(ws)[2], Head(ws)[2] * r[2]>>

WeightsValid ==
    /\ \A i \in 1..Len(weights) : weights[i][1] >= 0
    /\ ~FracLess(<<1, 1>>, FracSum(weights))
PricesValid == \A i \in 1..Len(weights) : current_prices[i] > 0
AllocPre == WeightsValid /\ investment > 0 /\ PricesValid

InBand == ~BelowMin(total_invested, investment)
          /\ WithinMax(total_invested, investment)
(* No held line takes one more share within the upper band.                *)
NoIncrementFits ==
    \A i \in 1..Len(stock_data) :
        stock_data[i].price * 100 > investment * MaxUsagePct - total_invested * 100

(* C1: for non-negative weights summing to at most 1, a positive budget    *)
(* and positive prices, the allocation returns (the final division is      *)
(* defined) with total_invested inside [0.90, 1.02] of the budget, or      *)
(* below 0.90 of it with no held line able to take one more share.         *)
C1_BandOrNoFit ==
    AllocPre =>
        /\ apc = "final" => (stock_data = <<>> \/ SumAmounts(stock_data) > 0)
        /\ apc = "done" =>
              \/ InBand
              \/ BelowMin(total_invested, investment) /\ NoIncrementFits

(* A return below the band after the fill-up pass added a share.           *)
C1_Witness ==
    /\ AllocPre
    /\ apc = "done"
    /\ BelowMin(total_invested, investment)
    /\ \E i \in 1..Len(stock_data) :
          LET s == stock_data[i].symbol
          IN  stock_data[i].shares >
                 IntDiv(weights[s][1] * investment, weights[s][2] * current_prices[s])

(* C2: the fill-up loop terminates: an iteration that stays in the loop    *)
(* has added one share and raised total_invested by that line's positive   *)
(* price; the loop is left with the lower band reached, the upper band     *)
(* reached, or no held line able to take a share; and it is always left.   *)
FillProgress ==
    (apc = "fill" /\ apc' = "fill") =>
        /\ total_invested' > total_invested
        /\ last_step'.kind = "add"
FillExit ==
    (apc = "fill" /\ apc' = "trim") =>
        \/ ~BelowMin(total_invested', investment)
        \/ total_invested' * 100 >= investment * MaxUsagePct
        \/ \A i \in 1..Len(stock_data') :
              ~WithinMax(total_invested' + stock_data'[i].price, investment)
C2_FillTerminates ==
    /\ [][FillProgress /\ FillExit]_vars
    /\ (apc = "fill") ~> (apc = "trim")

(* The loop is left through the no-progress guard after it added a share.  *)
C2_Witness ==
    /\ apc = "trim"
    /\ last_step.kind = "none"
    /\ BelowMin(total_invested, investment)
    /\ stock_data # <<>>
    /\ total_invested >
          SumAmounts(InitialPass(1, weights, investment, current_prices))
-----------------------------------------------------------------------------
(* C11: an allocation with a budget of 0 or less, with a price of 0 or     *)
(* less for a weighted symbol, or with a weighted symbol the price map     *)
(* lacks, ends with an exception in the initial pass: no fill-up or trim   *)
(* step runs and nothing is returned.                                      *)
InputDefect ==
    \/ investment <= 0
    \/ \E i \in 1..Len(weights) :
          i \notin DOMAIN current_prices \/ current_prices[i] <= 0
C11_FailFast ==
    (apc # "idle" /\ InputDefect) =>
        /\ apc \in {"start", "raised"}
        /\ ~allocation.returned

(* C12: what the allocation returns has amount = shares * price on every   *)
(* line, total_invested equal to the sum of the amounts, every weight      *)
(* equal to amount / total_invested (the weights of a non-empty            *)
(* allocation sum to 1), and remaining = budget - total_invested.          *)
LineWeights(sd) == [i \in 1..Len(sd) |-> sd[i].weight]
C12_ReturnedTotals ==
    allocation.returned =>
        LET sd == allocation.stock_data
            total == allocation.total_invested
        IN  /\ apc = "done"
            /\ \A i \in 1..Len(sd) :
                  /\ sd[i].amount = sd[i].shares * sd[i].price
                  /\ sd[i].weight[2] # 0
                  /\ sd[i].weight[1] * total = sd[i].amount * sd[i].weight[2]
            /\ total = SumAmounts(sd)
            /\ sd # <<>> => FracSum(LineWeights(sd))[1] = FracSum(LineWeights(sd))[2]
            /\ allocation.investment = investment
            /\ allocation.remaining = investment - total

(* Two lines returned after the fill-up pass added a share, with money     *)
(* left over.                                                              *)
C12_Witness ==
    /\ allocation.returned
    /\ Len(allocation.stock_data) = 2
    /\ allocation.remaining > 0
    /\ allocation.total_invested >
          SumAmounts(InitialPass(1, weights, investment, current_prices))

(* C13: the initial pass gives every weighted symbol of positive price     *)
(* floor(w * budget / price) shares; the symbol is a line exactly when     *)
(* that is at least 1, the line's amount is shares * price, and            *)
(* total_invested is the sum of the amounts of the lines.                  *)
IsFloor(s, w, inv, p) ==
    /\ s * p * w[2] <= w[1] * inv
    /\ w[1] * inv < (s + 1) * p * w[2]
LinesOf(sd, sym) == {j \in 1..Len(sd) : sd[j].symbol = sym}
InitialPassAsClaimed ==
    (apc = "start" /\ apc' = "fill") =>
        /\ \A i \in 1..Len(weights) :
              current_prices[i] > 0 =>
                 \E s \in 0..(weights[i][1] * investment) :
                    /\ IsFloor(s, weights[i], investment, current_prices[i])
                    /\ IF s >= 1
                       THEN /\ Cardinality(LinesOf(stock_data', i)) = 1
                            /\ \A j \in LinesOf(stock_data', i) :
                                  /\ stock_data'[j].shares = s
                                  /\ stock_data'[j].amount = s * current_prices[i]
                       ELSE LinesOf(stock_data', i) = {}
        /\ \A j \in 1..Len(stock_data') :
              stock_data'[j].symbol \in 1..Len(weights)
        /\ total_invested' = SumAmounts(stock_data')
C13_InitialPass == [][InitialPassAsClaimed]_vars

(* After the initial pass: one of two symbols was dropped, the other is    *)
(* held with a share count that was rounded down.                          *)
C13_Witness ==
    /\ apc = "fill"
    /\ Len(weights) = 2
    /\ stock_data = InitialPass(1, weights, investment, current_prices)
    /\ Len(stock_data) = 1
    /\ stock_data[1].shares * stock_data[1].price * stock_data[1].weight[2]
          < stock_data[1].weight[1] * investment
    /\ total_invested = stock_data[1].amount

(* C14: the share a fill-up iteration adds goes to the held line of the    *)
(* highest weight among the lines whose price fits under 1.02 of the       *)
(* budget, and among lines of equal weight to the one that comes first in  *)
(* the order of the weight vector; no other line changes.                  *)
Fits(line) == WithinMax(total_invested + line.price, investment)
SameWeight(a, b) == ~FracLess(a.weight, b.weight) /\ ~FracLess(b.weight, a.weight)
FillChoice ==
    (last_step'.kind = "add") =>
        LET s == last_step'.symbol
        IN  /\ Cardinality(LinesOf(stock_data, s)) = 1
            /\ \A c \in LinesOf(stock_data, s) :
                  /\ Fits(stock_data[c])
                  /\ \A j \in 1..Len(stock_data) :
                        (j # c /\ Fits(stock_data[j])) =>
                            \/ FracLess(stock_data[j].weight, stock_data[c].weight)
                            \/ /\ SameWeight(stock_data[j], stock_data[c])
                               /\ stock_data[j].symbol > s
            /\ \A j \in 1..Len(stock_data) : \A k \in LinesOf(stock_data', stock_data[j].symbol) :
                  stock_data'[k].shares =
                      stock_data[j].shares + (IF stock_data[j].symbol = s THEN 1 ELSE 0)
            /\ Len(stock_data') = Len(stock_data)
C14_FillChoice == [][FillChoice]_vars

(* A share was added to the first of two lines of equal weight, both of    *)
(* which fitted.                                                           *)
C14_Witness ==
    /\ last_step.kind = "add"
    /\ last_step.symbol = 1
    /\ Len(stock_data) = 2
    /\ SameWeight(stock_data[1], stock_data[2])
    /\ \A j \in 1..2 :
          WithinMax(total_invested - current_prices[1] + stock_data[j].price,
                    investment)

(* C15: budget 10000, prices 100 and 50, weights 0.5 and 0.5: no fill-up   *)
(* or trim step is taken and the allocation returned is 50 and 100 shares, *)
(* total_invested 10000, remaining 0.                                      *)
ExactFit ==
    /\ investment = 10000
    /\ weights = << <<1, 2>>, <<1, 2>> >>
    /\ current_prices = <<100, 50>>
C15_ExactFit ==
    ExactFit =>
        /\ last_step.kind = "none"
        /\ apc \notin {"trimloop", "raised"}
        /\ apc = "done" =>
              /\ allocation.returned
              /\ Len(allocation.stock_data) = 2
              /\ \A j \in 1..2 :
                    /\ allocation.stock_data[j].symbol = 1 =>
                           allocation.stock_data[j].shares = 50
                    /\ allocation.stock_data[j].symbol = 2 =>
                           allocation.stock_data[j].shares = 100
              /\ {allocation.stock_data[j].symbol : j \in 1..2} = {1, 2}
              /\ allocation.total_invested = 10000
              /\ allocation.remaining = 0
C15_Witness == ExactFit /\ apc = "done" /\ allocation.returned

(* C16: budget 1000, weight 1.0 on one symbol of price 400: the initial    *)
(* pass holds 2 shares (800), the fill-up pass adds none, and the          *)
(* allocation returned has total_invested 800 and remaining 200.           *)
Undershoot ==
    /\ investment = 1000
    /\ weights = << <<2, 2>> >>
    /\ current_prices = <<400>>
C16_Undershoot ==
    Undershoot =>
        /\ last_step.kind = "none"
        /\ apc \notin {"trimloop", "raised"}
        /\ apc \notin {"start", "done"} =>
              /\ Len(stock_data) = 1
              /\ stock_data[1].shares = 2
              /\ stock_data[1].amount = 800
        /\ apc = "done" =>
              /\ allocation.returned
              /\ Len(allocation.stock_data) = 1
              /\ allocation.stock_data[1].shares = 2
              /\ allocation.total_invested = 800
              /\ allocation.remaining = 200
C16_Witness ==
    /\ Undershoot /\ apc = "done" /\ allocation.returned
    /\ BelowMin(allocation.total_invested, investment)
-----------------------------------------------------------------------------
(* The profile the risk table and the horizon rule give.                   *)
ClaimedProfile(level, h) ==
    CASE level = "Low" /\ h > 36 -> Row(1500, 8, 12000, 12000)
      [] level = "Low" /\ h < 6 -> Row(1200, 10, 22500, 22500)
      [] level = "Low" /\ h >= 6 /\ h <= 36 -> Row(1500, 8, 15000, 15000)
      [] level = "Medium" /\ h > 36 -> Row(2500, 5, 8000, 8000)
      [] level = "Medium" /\ h < 6 -> Row(2000, 7, 15000, 15000)
      [] level = "Medium" /\ h >= 6 /\ h <= 36 -> Row(2500, 5, 10000, 10000)
      [] level = "High" /\ h > 36 -> Row(3500, 3, 4000, 4000)
      [] level = "High" /\ h < 6 -> Row(2800, 5, 7500, 7500)
      [] level = "High" /\ h >= 6 /\ h <= 36 -> Row(3500, 3, 5000, 5000)

UsedProfile(o) == o.risk_params[o.risk_level]

(* C6: the profile an optimizer uses is the base row of its risk level,    *)
(* with risk_aversion and volatility_penalty times 0.8 for a horizon above *)
(* 36, times 1.5 (and max_weight times 0.8, min_stocks plus 2) for a       *)
(* horizon below 6, and unchanged for 6 to 36 months, both included.       *)
C6_ProfileTable ==
    \A i \in 1..Len(optimizers) :
        UsedProfile(optimizers[i]) =
            ClaimedProfile(optimizers[i].risk_level, optimizers[i].investment_period)

(* Optimizers at both boundaries and on both sides of them.                *)
C6_Witness ==
    /\ Len(optimizers) = 2
    /\ optimizers[1].investment_period = 36
    /\ optimizers[2].investment_period = 6
    /\ optimizers[1].risk_level = "Low"
    /\ optimizers[2].risk_level = "High"

(* C7: a construction leaves every earlier optimizer as it was, and the    *)
(* new optimizer holds the base row of its level adjusted once for its     *)
(* horizon, whatever was constructed before it.                            *)
ConstructionIsLocal ==
    Len(optimizers') = Len(optimizers) + 1 =>
        /\ SubSeq(optimizers', 1, Len(optimizers)) = optimizers
        /\ LET new == optimizers'[Len(optimizers')]
           IN  /\ UsedProfile(new) =
                      ClaimedProfile(new.risk_level, new.investment_period)
               /\ \A l \in Levels \ {new.risk_level} :
                      new.risk_params[l] = ClaimedProfile(l, 12)
C7_NoCompounding == [][ConstructionIsLocal]_vars

(* Two requests of the same level with a short horizon, one after the      *)
(* other.                                                                  *)
C7_Witness ==
    /\ Len(optimizers) = 2
    /\ optimizers[1].risk_level = optimizers[2].risk_level
    /\ optimizers[1].investment_period = 3
    /\ optimizers[2].investment_period = 5
-----------------------------------------------------------------------------
(* C21: for every risk level, an optimizer built with a horizon of 3       *)
(* months has a risk_aversion strictly above that of one built with 12,    *)
(* which is strictly above that of one built with 48, also when the        *)
(* optimizers are constructed one after another in the same process.       *)
RiskAversion(o) == o.risk_params[o.risk_level].risk_aversion
Built(o, level, h) == o.risk_level = level /\ o.investment_period = h
C21_HorizonMonotone ==
    \A level \in Levels : \A i, j \in 1..Len(optimizers) :
        LET a == optimizers[i]
            b == optimizers[j]
        IN  /\ (Built(a, level, 3) /\ Built(b, level, 12)) =>
                   RiskAversion(a) > RiskAversion(b)
            /\ (Built(a, level, 12) /\ Built(b, level, 48)) =>
                   RiskAversion(a) > RiskAversion(b)
            /\ (Built(a, level, 3) /\ Built(b, level, 48)) =>
                   RiskAversion(a) > RiskAversion(b)

(* Three optimizers of one level built in a row with horizons 48, 12 and   *)
(* 3.                                                                      *)
C21_Witness ==
    /\ Len(optimizers) = 3
    /\ optimizers[1].risk_level = optimizers[2].risk_level
    /\ optimizers[2].risk_level = optimizers[3].risk_level
    /\ optimizers[1].investment_period = 48
    /\ optimizers[2].investment_period = 12
    /\ optimizers[3].investment_period = 3
-----------------------------------------------------------------------------
Strategies == {calls[i].strategy : i \in 1..Len(calls)}
CallFailed(c) ==
    \/ c.ended = "raised"
    \/ c.ended = "returned" /\ ~c.result.success
Diagnostic(c) == IF c.ended = "raised" THEN c.error ELSE c.result.error

(* C3: ConvexStrategy is the first strategy invoked exactly when the       *)
(* universe has at most 20 assets; above 20 it is never invoked and        *)
(* HeuristicStrategy is invoked directly.                                  *)
C3_Routing ==
    calls # <<>> =>
        /\ (calls[1].strategy = "cvxpy") <=> (num_stocks <= 20)
        /\ num_stocks > 20 => Strategies = {"scipy"}

(* A universe of exactly 20 assets whose optimization went through CVXPY.  *)
C3_Witness ==
    /\ num_stocks = 20
    /\ opc = "done"
    /\ calls[1].strategy = "cvxpy"
    /\ outcome.weights = "cvxpy"

(* C4: for at most 20 assets, whenever ConvexStrategy fails, by its solver *)
(* status, by an exception, or on a degenerate covariance, SciPy is        *)
(* invoked with the same arguments and optimize_portfolio ends with what   *)
(* SciPy gave.                                                             *)
C4_FallbackOnEveryFailure ==
    (opc = "done" /\ num_stocks <= 20 /\ calls # <<>> /\ CallFailed(calls[1])) =>
        /\ Len(calls) = 2
        /\ calls[2].strategy = "scipy"
        /\ calls[2].args = calls[1].args
        /\ IF calls[2].result.success
           THEN outcome.kind = "returned" /\ outcome.weights = "scipy"
           ELSE outcome.kind = "raised" /\ outcome.msg = calls[2].result.error

(* C5: when every strategy attempted has failed, optimize_portfolio raises *)
(* ValueError with the diagnostic of the last strategy attempted and       *)
(* returns no weights; whatever it returns came from a strategy that       *)
(* succeeded.                                                              *)
C5_AllFailedRaises ==
    opc = "done" =>
        /\ (\A i \in 1..Len(calls) : CallFailed(calls[i])) =>
              /\ outcome.kind = "raised"
              /\ outcome.exc = "ValueError"
              /\ outcome.msg = Diagnostic(calls[Len(calls)])
              /\ outcome.msg # "absent"
              /\ outcome.weights = "absent"
        /\ outcome.kind = "returned" =>
              /\ ~CallFailed(calls[Len(calls)])
              /\ outcome.weights = calls[Len(calls)].result.weights

(* CVXPY failed without a message, SciPy failed after it.                  *)
C5_Witness ==
    /\ opc = "done"
    /\ Len(calls) = 2
    /\ calls[1].ended = "returned" /\ calls[1].result.error = "absent"
    /\ CallFailed(calls[1]) /\ CallFailed(calls[2])
    /\ outcome.kind = "raised"
-----------------------------------------------------------------------------
Returned(i) == \E j \in 1..Len(filtered_weights) : filtered_weights[j].symbol = i

(* C8: the returned weights leave out every entry below 0.5% and sum to 1  *)
(* within 1e-3.                                                            *)
C8_SumToOne ==
    fpc = "returned" =>
        /\ \A i \in 1..Len(solver_x) : solver_x[i] < 5000 => ~Returned(i)
        /\ SumFiltered(filtered_weights) >= 10000 - 10
        /\ SumFiltered(filtered_weights) <= 10000 + 10

(* C9: no returned weight exceeds max_weight by more than 1e-6.            *)
C9_MaxWeight ==
    fpc = "returned" =>
        \A j \in 1..Len(filtered_weights) :
            filtered_weights[j].weight * 100 <= fparams.max_weight * 100 + 1

(* C10: in a universe of at least min_stocks assets, at least min_stocks   *)
(* returned weights are above 1%.                                          *)
C10_MinActive ==
    (fpc = "returned" /\ Len(solver_x) >= fparams.min_stocks) =>
        Cardinality({j \in 1..Len(filtered_weights) :
                        filtered_weights[j].weight > 100}) >= fparams.min_stocks
-----------------------------------------------------------------------------
(* C17: every failure result a strategy returns has success false, an      *)
(* error message and no weights.                                           *)
C17_FailureResults ==
    \A i \in 1..Len(calls) :
        (calls[i].ended = "returned" /\ ~calls[i].result.success) =>
            /\ calls[i].result.error # "absent"
            /\ calls[i].result.weights = "absent"

(* C18: in one optimize_portfolio call no strategy is invoked twice; a     *)
(* failure of CVXPY is followed by exactly one invocation of SciPy, a      *)
(* success of CVXPY by none.                                               *)
Invocations(strategy) == {i \in 1..Len(calls) : calls[i].strategy = strategy}
C18_OneAttemptEach ==
    /\ Cardinality(Invocations("cvxpy")) <= 1
    /\ Cardinality(Invocations("scipy")) <= 1
    /\ (opc = "done" /\ Invocations("cvxpy") # {}) =>
           /\ calls[1].strategy = "cvxpy"
           /\ Cardinality(Invocations("scipy")) =
                  (IF CallFailed(calls[1]) THEN 1 ELSE 0)
-----------------------------------------------------------------------------
(* C19: for a raw matrix whose every column has a finite value,            *)
(* clean_returns_data takes +inf and -inf as missing, gives every missing  *)
(* cell the mean of the finite values of its own column, and returns a     *)
(* matrix of the same shape with no NaN and no infinity.                   *)
FiniteIn(c) == {r \in Rows(raw_returns) : raw_returns[r][c].kind = "num"}
RECURSIVE SumIn(_, _)
SumIn(c, rs) ==
    IF rs = {} THEN 0
    ELSE LET r == CHOOSE x \in rs : TRUE
         IN  raw_returns[r][c].v + SumIn(c, rs \ {r})
EveryColumnFinite == \A c \in Cols(raw_returns) : FiniteIn(c) # {}
SameShape(a, b) ==
    /\ Len(a) = Len(b)
    /\ \A r \in 1..Len(a) : Len(a[r]) = Len(b[r])
C19_CleanReturns ==
    (cpc # "idle" /\ EveryColumnFinite) =>
        /\ cpc = "filled" =>
              /\ SameShape(cleaned_data, raw_returns)
              /\ \A r \in Rows(raw_returns) : \A c \in Cols(raw_returns) :
                    IF raw_returns[r][c].kind = "num"
                    THEN cleaned_data[r][c] = raw_returns[r][c]
                    ELSE /\ cleaned_data[r][c].kind = "num"
                         /\ cleaned_data[r][c].v * Cardinality(FiniteIn(c))
                               = SumIn(c, FiniteIn(c))
        /\ cpc = "returned" =>
              /\ SameShape(cleaned_data, raw_returns)
              /\ \A r \in Rows(raw_returns) : \A c \in Cols(raw_returns) :
                    cleaned_data[r][c].kind = "num"

(* A cleaned matrix of two columns with different means, one of them with  *)
(* an infinity and the other with a NaN.                                   *)
C19_Witness ==
    /\ cpc = "returned"
    /\ EveryColumnFinite
    /\ Len(raw_returns[1]) = 2
    /\ \E r \in Rows(raw_returns) : raw_returns[r][1].kind \in {"pinf", "ninf"}
    /\ \E r \in Rows(raw_returns) : raw_returns[r][2].kind = "nan"
    /\ \E r \in Rows(raw_returns) : raw_returns[r][1].kind = "num"
           /\ raw_returns[r][2].kind = "num"
           /\ raw_returns[r][1].v # raw_returns[r][2].v
-----------------------------------------------------------------------------
(* C20: optimize_portfolio is a function of its inputs: a call that        *)
(* repeats an earlier call's inputs ends as that call did, with the same   *)
(* weights and metrics, on the CVXPY path and on the SciPy path.           *)
Answer(o) ==
    [kind |-> o.kind, exc |-> o.exc, msg |-> o.msg, weights |-> o.weights,
     utility |-> o.utility]
C20_Stateless ==
    opc = "done" =>
        \A i \in 1..Len(history) : Answer(outcome) = Answer(history[i])
-----------------------------------------------------------------------------
(* C22: the trim pass starts when total_invested is above 1.02 of the      *)
(* budget; it takes one share at a time from the held lines in ascending   *)
(* order of the weights the optimizer gave, ranked once when the pass      *)
(* starts, a line being emptied before the next is touched; it removes     *)
(* nothing once total_invested is within 1.02 of the budget and ends with  *)
(* that reached or with every held line at 0 shares.                       *)
Symbols(sd) == [i \in 1..Len(sd) |-> sd[i].symbol]
Ranking(sd) == [i \in 1..Len(sd) |-> <<sd[i].symbol, sd[i].weight>>]
AscendingByWeight(sd) ==
    \A i, j \in 1..Len(sd) : i < j => ~FracLess(sd[j].weight, sd[i].weight)
TrimAsClaimed ==
    /\ (apc = "trim" /\ apc' = "trimloop") =>
           /\ ~WithinMax(total_invested, investment)
           /\ AscendingByWeight(stock_data')
           /\ \A i \in 1..Len(stock_data') :
                  stock_data'[i].weight = weights[stock_data'[i].symbol]
    /\ (apc = "trim" /\ ~WithinMax(total_invested, investment)
           /\ stock_data # <<>>) => apc' = "trimloop"
    /\ (apc = "trimloop" /\ stock_data' # stock_data) =>
           /\ ~WithinMax(total_invested, investment)
           /\ Ranking(stock_data') = Ranking(stock_data)
           /\ \E k \in 1..Len(stock_data) :
                  /\ stock_data[k].shares > 0
                  /\ stock_data' = RemoveShareAt(stock_data, k)
                  /\ \A i \in 1..(k - 1) : stock_data[i].shares = 0
                  /\ \A i \in 1..Len(stock_data) :
                         FracLess(stock_data[i].weight, stock_data[k].weight)
                             => stock_data[i].shares = 0
    /\ (apc = "trimloop" /\ apc' = "final") =>
           \/ WithinMax(total_invested', investment)
           \/ \A i \in 1..Len(stock_data') : stock_data'[i].shares = 0
C22_TrimPass == [][TrimAsClaimed]_vars

(* The line of the lower weight is empty, the pass has gone on to the next *)
(* line and taken a share from it.                                         *)
C22_Witness ==
    /\ apc = "trimloop"
    /\ trim_i = 2
    /\ last_step.kind = "remove"
    /\ stock_data[1].shares = 0
    /\ FracLess(stock_data[1].weight, stock_data[2].weight)
-----------------------------------------------------------------------------
(* C23: a fill-up step raises the share count of exactly one held line by  *)
(* 1 and a trim step lowers the share count of exactly one held line by 1; *)
(* the shares and amounts of the other lines, the price and symbol of      *)
(* every line and the set of lines stay as they were.                      *)
SymbolSet(sd) == {sd[i].symbol : i \in 1..Len(sd)}
LineOf(sd, sym) == sd[CHOOSE i \in 1..Len(sd) : sd[i].symbol = sym]
OneShare(d) ==
    /\ Len(stock_data') = Len(stock_data)
    /\ SymbolSet(stock_data') = SymbolSet(stock_data)
    /\ Cardinality(SymbolSet(stock_data)) = Len(stock_data)
    /\ \E s \in SymbolSet(stock_data) :
          /\ LineOf(stock_data', s).shares = LineOf(stock_data, s).shares + d
          /\ LineOf(stock_data', s).price = LineOf(stock_data, s).price
          /\ \A t \in SymbolSet(stock_data) \ {s} :
                 LineOf(stock_data', t) = LineOf(stock_data, t)
SingleShareSteps ==
    /\ (apc = "fill" /\ total_invested' # total_invested) => OneShare(1)
    /\ (apc = "trimloop" /\ total_invested' # total_invested) => OneShare(-1)
    /\ (apc \in {"fill", "trim", "trimloop"} /\ total_invested' = total_invested) =>
           \A s \in SymbolSet(stock_data) \cup SymbolSet(stock_data') :
               /\ s \in SymbolSet(stock_data) \cap SymbolSet(stock_data')
               /\ LineOf(stock_data', s) = LineOf(stock_data, s)
C23_SingleShareSteps == [][SingleShareSteps]_vars

(* A fill-up step on a list of three held lines, two of which were left    *)
(* alone.                                                                  *)
C23_Witness ==
    /\ last_step.kind = "add"
    /\ Len(stock_data) = 3
    /\ \E i \in 1..3 : stock_data[i].symbol # last_step.symbol
                        /\ stock_data[i].shares > 1
-----------------------------------------------------------------------------
(* C24: in one allocation the fill-up pass adds no more shares, and the    *)
(* trim pass removes no more shares, than there are held lines.  With      *)
(* positive prices only one of the two passes changes a share count, so    *)
(* the number of single-share adjustments made so far is the distance of   *)
(* the share total from that of the initial pass.                          *)
RECURSIVE SumShares(_)
SumShares(sd) ==
    IF sd = <<>> THEN 0 ELSE Head(sd).shares + SumShares(Tail(sd))
Adjustments ==
    LET initial == SumShares(InitialPass(1, weights, investment, current_prices))
        now == SumShares(stock_data)
    IN  IF now >= initial THEN now - initial ELSE initial - now
C24_CappedPasses ==
    apc \in {"fill", "trim", "trimloop", "final"} =>
        Adjustments <= Len(stock_data)
-----------------------------------------------------------------------------
(* C25: SciPyOptimizationStrategy makes exactly three minimize runs, the   *)
(* first from the uniform weights and the next two from drawn points; it   *)
(* returns success exactly when a run succeeded, with the weights of the   *)
(* successful run of the highest utility, the earliest of them on a tie,   *)
(* and never the weights of a run that failed.  In one optimize_portfolio  *)
(* call of a new process run k starts from point k - 1.                    *)
RunsMade == {k \in 1..ScipyRuns : solved[k - 1].known}
RunOk(k) == solved[k - 1].ok
RunUtility(k) == solved[k - 1].utility
C25_BestOfThree ==
    \A i \in 1..Len(calls) :
        (calls[i].strategy = "scipy" /\ calls[i].ended = "returned") =>
            LET r == calls[i].result
            IN  /\ RunsMade = 1..ScipyRuns
                /\ rng = ScipyRuns - 1
                /\ r.success <=> \E k \in 1..ScipyRuns : RunOk(k)
                /\ r.success =>
                       /\ r.run \in 1..ScipyRuns
                       /\ RunOk(r.run)
                       /\ r.utility = RunUtility(r.run)
                       /\ \A k \in 1..ScipyRuns : RunOk(k) =>
                              /\ RunUtility(k) <= r.utility
                              /\ k < r.run => RunUtility(k) < r.utility
-----------------------------------------------------------------------------
-----------------------------------------------------------------------------
(* C29: a symbol whose initial share count floor(w * budget / price) is 0  *)
(* is in no line of the allocation at any time, the fill-up pass adding    *)
(* shares to held lines only; when every weighted symbol's initial share   *)
(* count is 0 the allocation returns, with no line, total_invested 0 and   *)
(* remaining equal to the budget, the final weight recomputation dividing  *)
(* nothing.                                                                *)
InitialShares(i) ==
    IntDiv(weights[i][1] * investment, weights[i][2] * current_prices[i])
NothingHeld == \A i \in 1..Len(weights) : InitialShares(i) = 0
C29_ZeroSharesStayOut ==
    /\ \A i \in 1..Len(weights) :
          InitialShares(i) = 0 =>
              /\ i \notin SymbolSet(stock_data)
              /\ i \notin SymbolSet(allocation.stock_data)
    /\ NothingHeld =>
          /\ apc \in {"start", "fill", "trim", "final", "done"}
          /\ apc = "done" =>
                /\ allocation.returned
                /\ allocation.stock_data = <<>>
                /\ allocation.total_invested = 0
                /\ allocation.remaining = investment

(* An allocation returned with one line, which took a fill-up share, for   *)
(* two weighted symbols, the other of which started with 0 shares.         *)
C29_Witness ==
    /\ apc = "done"
    /\ Len(weights) = 2
    /\ \E i \in 1..2 : weights[i][1] > 0 /\ InitialShares(i) = 0
    /\ Len(allocation.stock_data) = 1
    /\ allocation.stock_data[1].shares >
           InitialShares(allocation.stock_data[1].symbol)
-----------------------------------------------------------------------------
(* C30: an optimizer holds the row of its risk level adjusted once for its *)
(* horizon and the base rows of the other two levels, from its             *)
(* construction on; every strategy invocation of every optimize_portfolio  *)
(* call on it gets that same row (max_weight, min_stocks, risk_aversion).  *)
C30_AdjustedOnce ==
    /\ \A k \in 1..Len(optimizers) :
          LET o == optimizers[k]
          IN  /\ o.risk_params[o.risk_level] =
                     ClaimedProfile(o.risk_level, o.investment_period)
              /\ \A l \in Levels \ {o.risk_level} :
                     o.risk_params[l] = ClaimedProfile(l, DefaultPeriod)
    /\ (optimizers # <<>>) =>
          \A i \in 1..Len(calls) :
              calls[i].args.risk =
                  ClaimedProfile(optimizers[1].risk_level,
                                 optimizers[1].investment_period)

(* The second optimize_portfolio call on an optimizer of a short horizon   *)
(* has reached the SciPy strategy.                                         *)
C30_Witness ==
    /\ Len(optimizers) = 1
    /\ optimizers[1].investment_period = 3
    /\ Len(history) = 1
    /\ calls # <<>>
    /\ calls[Len(calls)].strategy = "scipy"
-----------------------------------------------------------------------------
(* C26: the add button is disabled and optimized_stocks is None when the   *)
(* widget is built; an optimize_portfolio that succeeds stores its         *)
(* allocation in optimized_stocks and enables the button; an               *)
(* add_optimized_stocks run with a portfolio selected calls add_stock once *)
(* for each optimized line, with that portfolio's id, then disables the    *)
(* button and sets optimized_stocks to None; and the button is never       *)
(* enabled while optimized_stocks is None.                                 *)
WidgetFlow ==
    /\ handler = "__init__" => ~add_button /\ optimized_stocks.none
    /\ add_button => ~optimized_stocks.none
    /\ (events' = events + 1 /\ handler' = "optimize_portfolio") =>
           /\ ~optimized_stocks'.none
           /\ add_button'
    /\ (events' = events + 1 /\ handler' = "add_optimized_stocks"
           /\ portfolio_index > 0) =>
           /\ add_stock_calls' = add_stock_calls \o
                  AddStockCalls(Portfolios[portfolio_index], optimized_stocks.lines)
           /\ ~add_button'
           /\ optimized_stocks'.none
C26_WidgetFlow == [][WidgetFlow]_vars
-----------------------------------------------------------------------------
(* C27: after any sequence of add_stock calls the table has at most one    *)
(* row for a pair (portfolio_id, symbol); the row has the price of the     *)
(* first call for the pair and as quantity the sum of the quantities of    *)
(* all the calls for the pair, and every call for the pair returned the    *)
(* id of that row.                                                         *)
CallsFor(portfolio_id, symbol) ==
    {k \in 1..Len(add_log) :
        /\ add_log[k].portfolio_id = portfolio_id
        /\ add_log[k].symbol = symbol}
RECURSIVE SumQuantities(_)
SumQuantities(ks) ==
    IF ks = {} THEN 0
    ELSE LET k == CHOOSE x \in ks : TRUE
         IN  add_log[k].quantity + SumQuantities(ks \ {k})
FirstOf(ks) == CHOOSE k \in ks : \A x \in ks : k <= x
C27_OneRowPerPair ==
    \A portfolio_id \in PortfolioIds, symbol \in StockSymbols :
        LET rows == Existing(portfolio_id, symbol)
            ks == CallsFor(portfolio_id, symbol)
        IN  /\ Cardinality(rows) <= 1
            /\ ks = {} => rows = {}
            /\ ks # {} =>
                  /\ Cardinality(rows) = 1
                  /\ \A i \in rows :
                        /\ stock_table[i].quantity = SumQuantities(ks)
                        /\ stock_table[i].price = add_log[FirstOf(ks)].price
                        /\ \A k \in ks : add_log[k].returned = stock_table[i].id
====
